---- MODULE Spec2Model ----
(***************************************************************************)
(* Anti-fraud service (FastAPI + SQLAlchemy): authentication gate, users,  *)
(* fraud rules, transactions, and the rule DSL (validator and evaluator).  *)
(*                                                                         *)
(* Text is held as a sequence of one-character strings so that the string  *)
(* operations of the DSL (split, join, replace) are computed, not assumed. *)
(* Numbers are held in tenths (the value 1500.0 is 15000).                 *)
(* An Optional[T] value is a sequence of length 0 (None) or 1.             *)
(***************************************************************************)
EXTENDS Integers, Sequences, FiniteSets, TLC

VARIABLES
    users,        \* table users: id -> row
    rules,        \* table fraud_rules: id -> row
    txs,          \* table transactions: id -> row
    ruleResults,  \* table rule_results: rows in insertion order
    tables,       \* the tables that exist in the database
    resp,         \* the last request and the response the client received
    inflight,     \* per worker thread: the request it is in the middle of
    sessions,     \* the database sessions that are open, by their owner
    dslIn,        \* input of the DSL functions (SpecDsl)
    dslOut        \* their results (SpecDsl)

svcVars == <<users, rules, txs, ruleResults, tables, resp, inflight, sessions>>

dslVars == <<dslIn, dslOut>>

vars == <<users, rules, txs, ruleResults, tables, resp, inflight, sessions,
         dslIn, dslOut>>

\* bounds of the model
MaxUsers == 2

MaxRules == 2

MaxTxs == 2

MaxBatch == 2

\* worker threads that handle requests at the same time (SpecRaceUsers, SpecRaceRules)
MaxWorkers == 2

(***************************************************************************)
(* Text helpers: str.split(), ' '.join(), str.replace(), "in", slicing     *)
(***************************************************************************)
RECURSIVE SplitAcc(_, _, _)
SplitAcc(s, cur, acc) ==
    IF s = <<>>
    THEN (IF cur = <<>> THEN acc ELSE Append(acc, cur))
    ELSE IF Head(s) = " "
         THEN SplitAcc(Tail(s), <<>>, IF cur = <<>> THEN acc ELSE Append(acc, cur))
         ELSE SplitAcc(Tail(s), Append(cur, Head(s)), acc)

\* str.split(): split on runs of whitespace, no empty tokens
SplitWs(s) ==
    SplitAcc(s, <<>>, <<>>)

RECURSIVE JoinSp(_)
\* ' '.join(tokens)
JoinSp(toks) ==
    IF toks = <<>> THEN <<>>
    ELSE IF Len(toks) = 1 THEN toks[1]
    ELSE toks[1] \o <<" ">> \o JoinSp(Tail(toks))

RECURSIVE Replace(_, _, _)
\* str.replace(old, new): leftmost, non-overlapping occurrences
Replace(s, old, new) ==
    IF Len(s) < Len(old) THEN s
    ELSE IF SubSeq(s, 1, Len(old)) = old
         THEN new \o Replace(SubSeq(s, Len(old) + 1, Len(s)), old, new)
         ELSE <<Head(s)>> \o Replace(Tail(s), old, new)

RECURSIVE SplitOnAcc(_, _, _, _)
SplitOnAcc(s, sep, cur, acc) ==
    IF s = <<>> THEN Append(acc, cur)
    ELSE IF Head(s) = sep
         THEN SplitOnAcc(Tail(s), sep, <<>>, Append(acc, cur))
         ELSE SplitOnAcc(Tail(s), sep, Append(cur, Head(s)), acc)

\* str.split(sep): empty pieces are kept
SplitOn(s, sep) ==
    SplitOnAcc(s, sep, <<>>, <<>>)

Contains(s, c) ==
    \E i \in 1..Len(s) : s[i] = c

\* s[:n]
Prefix(s, n) ==
    SubSeq(s, 1, IF Len(s) < n THEN Len(s) ELSE n)

Digits == {"0", "1", "2", "3", "4", "5", "6", "7", "8", "9"}

DigitVal(c) ==
    CASE c = "0" -> 0 [] c = "1" -> 1 [] c = "2" -> 2 [] c = "3" -> 3
      [] c = "4" -> 4 [] c = "5" -> 5 [] c = "6" -> 6 [] c = "7" -> 7
      [] c = "8" -> 8 [] c = "9" -> 9

AllDigits(s) ==
    s # <<>> /\ \A i \in 1..Len(s) : s[i] \in Digits

RECURSIVE DigitsVal(_)
DigitsVal(s) ==
    IF s = <<>> THEN 0 ELSE DigitsVal(SubSeq(s, 1, Len(s) - 1)) * 10 + DigitVal(s[Len(s)])

RECURSIVE Pow10(_)
Pow10(n) ==
    IF n = 0 THEN 1 ELSE 10 * Pow10(n - 1)

(***************************************************************************)
(* Python literal parsing: int(text) and float(text) either give a number  *)
(* or raise ValueError                                                     *)
(***************************************************************************)
Unsigned(s) ==
    IF s # <<>> /\ Head(s) \in {"+", "-"} THEN Tail(s) ELSE s

SignOf(s) ==
    IF s # <<>> /\ Head(s) = "-" THEN -1 ELSE 1

\* int(text) succeeds
IsIntText(s) ==
    AllDigits(Unsigned(s))

IsMantissa(m) ==
    LET p == SplitOn(m, ".") IN
    CASE Len(p) = 1 -> AllDigits(p[1])
      [] Len(p) = 2 -> /\ (p[1] = <<>> \/ AllDigits(p[1]))
                       /\ (p[2] = <<>> \/ AllDigits(p[2]))
                       /\ ~(p[1] = <<>> /\ p[2] = <<>>)
      [] OTHER -> FALSE

IsDecimalText(u) ==
    LET p == SplitOn(u, "e") IN
    CASE Len(p) = 1 -> IsMantissa(p[1])
      [] Len(p) = 2 -> IsMantissa(p[1]) /\ AllDigits(Unsigned(p[2]))
      [] OTHER -> FALSE

SpecialFloats ==
    { <<"i", "n", "f">>, <<"n", "a", "n">>,
      <<"i", "n", "f", "i", "n", "i", "t", "y">> }

\* float(text) succeeds
IsFloatText(s) ==
    Unsigned(s) \in SpecialFloats \/ IsDecimalText(Unsigned(s))

\* int(text), in tenths
IntVal(s) ==
    SignOf(s) * DigitsVal(Unsigned(s)) * 10

\* float(text) of a decimal text, in tenths (exact when the literal has at
\* most one more fractional digit than its exponent)
FloatVal(s) ==
    LET p  == SplitOn(Unsigned(s), "e")
        m  == SplitOn(p[1], ".")
        fr == IF Len(m) = 2 THEN m[2] ELSE <<>>
        ex == IF Len(p) = 2 THEN SignOf(p[2]) * DigitsVal(Unsigned(p[2])) ELSE 0
        sh == ex + 1 - Len(fr)
    IN  IF sh >= 0
        THEN SignOf(s) * DigitsVal(m[1] \o fr) * Pow10(sh)
        ELSE SignOf(s) * (DigitsVal(m[1] \o fr) \div Pow10(0 - sh))

(***************************************************************************)
(* Values of the evaluator: a number, a text, or None                      *)
(***************************************************************************)
Num(n) == [kind |-> "num", v |-> n, s |-> <<>>]

Str(t) == [kind |-> "str", v |-> 0, s |-> t]

NoneVal == [kind |-> "none", v |-> 0, s |-> <<>>]

\* Optional values
None == <<>>

Some(x) == <<x>>

(***************************************************************************)
(* dsl/evaluator.py                                                        *)
(***************************************************************************)
RECURSIVE Walk(_, _, _)
\* the loop of _get_field_value over a dotted path; depth 2 is a leaf value
Walk(cur, parts, depth) ==
    IF parts = <<>> THEN cur
    ELSE IF depth < 2 /\ Head(parts) \in DOMAIN cur
         THEN Walk(cur[Head(parts)], Tail(parts), depth + 1)
         ELSE NoneVal

K_transaction == <<"t", "r", "a", "n", "s", "a", "c", "t", "i", "o", "n">>

K_user == <<"u", "s", "e", "r">>

K_metadata == <<"m", "e", "t", "a", "d", "a", "t", "a">>

_get_field_value(context, field) ==
    IF Contains(field, ".")
    THEN Walk(context, SplitOn(field, "."), 0)
    ELSE IF K_transaction \in DOMAIN context /\ field \in DOMAIN context[K_transaction]
         THEN context[K_transaction][field]
         ELSE IF K_user \in DOMAIN context /\ field \in DOMAIN context[K_user]
              THEN context[K_user][field]
              ELSE IF K_metadata \in DOMAIN context /\ field \in DOMAIN context[K_metadata]
                   THEN context[K_metadata][field]
                   ELSE NoneVal

_parse_value(value_str) ==
    IF value_str # <<>> /\ Head(value_str) = "'" /\ value_str[Len(value_str)] = "'"
    THEN Str(SubSeq(value_str, 2, Len(value_str) - 1))
    ELSE IF Contains(value_str, ".")
         THEN (IF IsDecimalText(Unsigned(value_str))
               THEN Num(FloatVal(value_str)) ELSE Str(value_str))
         ELSE (IF IsIntText(value_str)
               THEN Num(IntVal(value_str)) ELSE Str(value_str))

Op_eq == <<"=">>
Op_ne == <<"!", "=">>
Op_gt == <<">">>
Op_ge == <<">", "=">>
Op_lt == <<"<">>
Op_le == <<"<", "=">>

\* Python's ==
PyEq(left, right) ==
    /\ left.kind = right.kind
    /\ left.v = right.v
    /\ left.s = right.s

\* _compare_values with `>=` computed as `>`
_compare_values_strict_ge(left, operator, right) ==
    IF left.kind = "none" THEN "false"
    ELSE IF left.kind = "str" /\ operator \notin {Op_eq, Op_ne} THEN "false"
    ELSE IF operator = Op_eq THEN (IF PyEq(left, right) THEN "true" ELSE "false")
    ELSE IF operator = Op_ne THEN (IF PyEq(left, right) THEN "false" ELSE "true")
    ELSE IF operator \in {Op_gt, Op_ge, Op_lt, Op_le}
         THEN IF right.kind # "num" THEN "raise"
              ELSE IF operator = Op_gt THEN (IF left.v > right.v THEN "true" ELSE "false")
              ELSE IF operator = Op_ge THEN (IF left.v > right.v THEN "true" ELSE "false")
              ELSE IF operator = Op_lt THEN (IF left.v < right.v THEN "true" ELSE "false")
              ELSE (IF left.v <= right.v THEN "true" ELSE "false")
    ELSE "false"

\* "true", "false", or "raise" (TypeError: ordering a number against a text)
_compare_values(left, operator, right) ==
    IF left.kind = "none" THEN "false"
    ELSE IF left.kind = "str" /\ operator \notin {Op_eq, Op_ne} THEN "false"
    ELSE IF operator = Op_eq THEN (IF PyEq(left, right) THEN "true" ELSE "false")
    ELSE IF operator = Op_ne THEN (IF PyEq(left, right) THEN "false" ELSE "true")
    ELSE IF operator \in {Op_gt, Op_ge, Op_lt, Op_le}
         THEN IF right.kind # "num" THEN "raise"
              ELSE IF operator = Op_gt THEN (IF left.v > right.v THEN "true" ELSE "false")
              ELSE IF operator = Op_ge THEN (IF left.v >= right.v THEN "true" ELSE "false")
              ELSE IF operator = Op_lt THEN (IF left.v < right.v THEN "true" ELSE "false")
              ELSE (IF left.v <= right.v THEN "true" ELSE "false")
    ELSE "false"

\* the (result, description) pair; raised = TRUE when the call raises instead
EvalResult(m, fmt, field, actual, operator, expected, text, raised) ==
    [matched |-> m, fmt |-> fmt, field |-> field, actual |-> actual,
     operator |-> operator, expected |-> expected, text |-> text, raised |-> raised]

\* lines 35-40: the pair built from the comparison's outcome
DescribeResult(field, operator, actual, expected, result) ==
    CASE result = "raise" ->
           EvalResult(FALSE, "raise", field, actual, operator, expected, <<>>, TRUE)
      [] result = "true" ->
           EvalResult(TRUE, "matched", field, actual, operator, expected, <<>>, FALSE)
      [] OTHER ->
           EvalResult(FALSE, "not_matched", field, actual, operator, expected, <<>>, FALSE)

\* lines 21-41, on the tokens of the expression
EvaluateParts(dsl_expression, context, parts) ==
    IF Len(parts) = 3
    THEN DescribeResult(parts[1], parts[2],
                        _get_field_value(context, parts[1]), _parse_value(parts[3]),
                        _compare_values(_get_field_value(context, parts[1]), parts[2],
                                        _parse_value(parts[3])))
    ELSE EvalResult(FALSE, "unsupported", <<>>, NoneVal, <<>>, NoneVal, dsl_expression, FALSE)

evaluate_dsl_expression(dsl_expression, context) ==
    EvaluateParts(dsl_expression, context, SplitWs(JoinSp(SplitWs(dsl_expression))))

(***************************************************************************)
(* dsl/validator.py                                                        *)
(***************************************************************************)
Amount == <<"a", "m", "o", "u", "n", "t">>

\* the order in which validate_dsl_expression pads the operators
PadOrder == <<Op_ge, Op_le, Op_ne, Op_eq, Op_gt, Op_lt>>

allowed_fields == {Amount}

allowed_operators == {Op_gt, Op_ge, Op_lt, Op_le, Op_eq, Op_ne}

RECURSIVE PadOperators(_, _)
\* for op in operators: expr = expr.replace(op, f' {op} ')
PadOperators(expr, ops) ==
    IF ops = <<>> THEN expr
    ELSE PadOperators(Replace(expr, Head(ops), <<" ">> \o Head(ops) \o <<" ">>), Tail(ops))

DslValidationError(code, position, near) ==
    [code |-> code, position |-> position, near |-> near]

DslValidateResponse(is_valid, normalized, errors) ==
    [is_valid |-> is_valid, normalized_expression |-> normalized, errors |-> errors]

validate_dsl_expression(dsl_expression) ==
    LET expr   == JoinSp(SplitWs(PadOperators(JoinSp(SplitWs(dsl_expression)), PadOrder)))
        tokens == SplitWs(expr)
    IN  IF Len(tokens) = 3
        THEN LET field == tokens[1]
                 operator == tokens[2]
                 value == tokens[3]
             IN  IF field \notin allowed_fields
                 THEN DslValidateResponse(FALSE, None,
                          <<DslValidationError("DSL_INVALID_FIELD", 0, field)>>)
                 ELSE IF operator \notin allowed_operators
                 THEN DslValidateResponse(FALSE, None,
                          <<DslValidationError("DSL_INVALID_OPERATOR", Len(field) + 1, operator)>>)
                 ELSE IF ~IsFloatText(value)
                 THEN DslValidateResponse(FALSE, None,
                          <<DslValidationError("DSL_PARSE_ERROR",
                                               Len(field) + Len(operator) + 2, value)>>)
                 ELSE DslValidateResponse(TRUE, Some(expr), <<>>)
        ELSE DslValidateResponse(FALSE, None,
                 <<DslValidationError("DSL_UNSUPPORTED_TIER", 0, Prefix(dsl_expression, 20))>>)

F_age == <<"a", "g", "e">>

F_region == <<"r", "e", "g", "i", "o", "n">>

\* the context create_transaction builds for one rule
BuildContext(amount, age, region) ==
    (K_transaction :> (Amount :> Num(amount)))
    @@ (K_user :> ((F_age :> Num(age)) @@ (F_region :> Str(region))))

(***************************************************************************)
(* database/settings.py, auth/utils.py                                     *)
(***************************************************************************)
admin_email == "admin@admin.com"

admin_password == "admin123"

\* pwd_context.hash / pwd_context.verify
get_password_hash(password) ==
    <<"bcrypt", password>>

verify_password(plain_password, hashed_password) ==
    hashed_password = <<"bcrypt", plain_password>>

\* the algorithm name create_access_token passes to jwt.encode, and the names
\* the signing library supports
encode_algorithm == "hs256"

SupportedAlgorithms ==
    {"HS256", "HS384", "HS512", "RS256", "RS384", "RS512", "ES256", "ES384", "ES512"}

\* Some(token), or None when jwt.encode raises (unsupported algorithm)
create_access_token(sub, role) ==
    IF encode_algorithm \in SupportedAlgorithms
    THEN Some([kind |-> "claims", sub |-> Some(sub)])
    ELSE None

\* Some(claims), or None for a malformed, wrongly signed or expired token
decode_access_token(token) ==
    IF token.kind = "claims" THEN Some([sub |-> token.sub]) ELSE None

(***************************************************************************)
(* Requests carry: no Authorization header, a token that does not decode,  *)
(* or a signed claim set with or without `sub`                             *)
(***************************************************************************)
UserIds == 1..MaxUsers

NoToken == [kind |-> "none", sub |-> None]

BadToken == [kind |-> "bad", sub |-> None]

Tokens ==
    {NoToken, BadToken, [kind |-> "claims", sub |-> None]}
    \cup {[kind |-> "claims", sub |-> Some(u)] : u \in UserIds}

(***************************************************************************)
(* auth/dependencies.py                                                    *)
(***************************************************************************)
\* the User object built in place of a resolved identity; its uuid4 id (0)
\* names no row
MockUser ==
    [id |-> 0, email |-> "mock@example.com", full_name |-> "Mock User",
     role |-> "admin", is_active |-> TRUE, persisted |-> FALSE, dirty |-> FALSE]

\* the row users[id] as an object attached to the request's session
UserObj(db_users, id) ==
    [id |-> id, email |-> db_users[id].email, full_name |-> db_users[id].full_name,
     role |-> db_users[id].role, is_active |-> db_users[id].is_active,
     persisted |-> TRUE, dirty |-> FALSE]

get_current_user(token, db_users) ==
    IF token.kind = "none" THEN MockUser
    ELSE LET payload == decode_access_token(token) IN
         IF payload = None THEN MockUser                        \* 401, swallowed
         ELSE IF payload[1].sub = None THEN MockUser            \* 401, swallowed
         ELSE IF payload[1].sub[1] \notin DOMAIN db_users THEN MockUser
         ELSE IF ~db_users[payload[1].sub[1]].is_active THEN MockUser  \* 423, swallowed
         ELSE UserObj(db_users, payload[1].sub[1])

\* current_user.role = "admin": on a session-attached row this is a pending
\* UPDATE, written by the next commit of the request's session
get_current_admin_user(current_user) ==
    [current_user EXCEPT !.role = "admin",
                         !.dirty = current_user.persisted /\ current_user.role # "admin"]

\* db.commit(): flushes the attribute changes made to the identity object
Commit(db_users, current_user) ==
    IF current_user.dirty
    THEN [db_users EXCEPT ![current_user.id].role = current_user.role]
    ELSE db_users

(***************************************************************************)
(* main.py                                                                 *)
(***************************************************************************)
\* force_200_middleware: the status the client receives
force_200_middleware(status_code) ==
    IF status_code = 307 THEN 200
    ELSE IF status_code >= 400 THEN 200
    ELSE status_code

\* Base.metadata.create_all: the tables of the models declared on
\* database.connection.Base (models/transaction.py declares its own Base)
create_all(existing) ==
    existing \cup {"users", "fraud_rules", "rule_results"}

NewUser(email, password, full_name, role) ==
    [email |-> email, password_hash |-> get_password_hash(password),
     full_name |-> full_name, role |-> role, is_active |-> TRUE]

\* a fresh uuid4 identifier (the order of user and transaction ids is never used)
FreshId(used, space) ==
    CHOOSE i \in space \ used : \A j \in space \ used : i <= j

\* a bootstrap that adds the seed administrator without looking for one
startup_event_unconditional(db_users) ==
    IF Cardinality(DOMAIN db_users) >= MaxUsers THEN db_users
    ELSE db_users @@ (FreshId(DOMAIN db_users, UserIds)
                        :> NewUser(admin_email, admin_password, "admin user", "admin"))

\* the seed administrator, created when no user has the admin email
startup_event(db_users) ==
    IF \E u \in DOMAIN db_users : db_users[u].email = admin_email
    THEN db_users
    ELSE db_users @@ (FreshId(DOMAIN db_users, UserIds)
                        :> NewUser(admin_email, admin_password, "admin user", "admin"))

(***************************************************************************)
(* Responses                                                               *)
(***************************************************************************)
\* raised: the status of the HTTPException (500: any other exception) that left
\* the handler, 0 if none; status: what the client receives
Response(op, token, identity, raised, ok_status, decisions) ==
    [op |-> op, token |-> token, identity |-> identity, raised |-> raised,
     status |-> force_200_middleware(IF raised # 0 THEN raised ELSE ok_status),
     decisions |-> decisions, body |-> <<>>]

\* a response whose model (a rule, a user, a token) the handler returned: body
\* is <<the model>>, or <<>> when an exception left the handler
ResponseWith(op, token, identity, raised, ok_status, body) ==
    [Response(op, token, identity, raised, ok_status, <<>>) EXCEPT !.body = body]

NoRequest ==
    [op |-> "none", token |-> NoToken, identity |-> None, raised |-> 0, status |-> 0,
     decisions |-> <<>>, body |-> <<>>]

Workers == 1..MaxWorkers

\* a worker thread that is handling no request
Idle == [op |-> "idle"]

EmailList == <<"a@x.io", "b@x.io", "c@x.io", "d@x.io">>

\* the admin email and one more address per further user the model can hold
Emails == {admin_email} \cup {EmailList[i] : i \in 1..(MaxUsers - 1)}

UserPassword == "secret-1"

Passwords == {admin_password, UserPassword}

Roles == {"user", "admin"}

EmptyTable == <<>>

SvcInit ==
    /\ tables \in {create_all({}), create_all({"transactions"})}
    /\ users = startup_event(EmptyTable)
    /\ rules = EmptyTable
    /\ txs = EmptyTable
    /\ ruleResults = <<>>
    /\ resp = NoRequest
    /\ inflight = [w \in Workers |-> Idle]
    /\ sessions = {}

UserByEmail(db_users, email) ==
    {u \in DOMAIN db_users : db_users[u].email = email}

(***************************************************************************)
(* api/auth_router.py                                                      *)
(***************************************************************************)
register(email, password, full_name) ==
    /\ Cardinality(DOMAIN users) < MaxUsers \/ UserByEmail(users, email) # {}
    /\ IF UserByEmail(users, email) # {}
       THEN /\ resp' = Response("register", NoToken, None, 409, 201, <<>>)
            /\ UNCHANGED users
       ELSE LET id == FreshId(DOMAIN users, UserIds) IN
            /\ users' = users @@ (id :> NewUser(email, password, full_name, "user"))
            /\ resp' = Response("register", NoToken, None,
                                IF create_access_token(id, "user") = None THEN 500 ELSE 0,
                                201, <<>>)
    /\ UNCHANGED <<rules, txs, ruleResults, tables>>

AuthResponse(access_token, user_id) ==
    [access_token |-> access_token, expires_in |-> 3600, user_id |-> user_id]

\* what login does for the row its email query found: the exception it leaves
\* with (0: none) and the AuthResponse it returns
LoginResult(raised, body) ==
    [raised |-> raised, body |-> body]

\* login_outcome with the 423 check of is_active left out
login_outcome_unlocked(found, password) ==
    IF found = {} THEN LoginResult(401, <<>>)
    ELSE LET u == CHOOSE u \in found : TRUE IN
         IF ~verify_password(password, users[u].password_hash) THEN LoginResult(401, <<>>)
         ELSE IF create_access_token(u, users[u].role) = None THEN LoginResult(500, <<>>)
         ELSE LoginResult(0, <<AuthResponse(create_access_token(u, users[u].role)[1], u)>>)

login_outcome(found, password) ==
    IF found = {} THEN LoginResult(401, <<>>)
    ELSE LET u == CHOOSE u \in found : TRUE IN
         IF ~verify_password(password, users[u].password_hash) THEN LoginResult(401, <<>>)
         ELSE IF ~users[u].is_active THEN LoginResult(423, <<>>)
         ELSE IF create_access_token(u, users[u].role) = None THEN LoginResult(500, <<>>)
         ELSE LoginResult(0, <<AuthResponse(create_access_token(u, users[u].role)[1], u)>>)

login(email, password) ==
    /\ \E out \in {login_outcome(UserByEmail(users, email), password)} :
          resp' = ResponseWith("login", NoToken, None, out.raised, 200, out.body)
    /\ UNCHANGED <<users, rules, txs, ruleResults, tables>>

(***************************************************************************)
(* api/users_router.py                                                     *)
(***************************************************************************)
UserResponse(id, email, full_name, role, is_active) ==
    [id |-> id, email |-> email, full_name |-> full_name, role |-> role,
     is_active |-> is_active]

\* answers with a User built from the identity, is_active=True; storage is not read
get_current_user_profile(token) ==
    LET current_user == get_current_user(token, users) IN
    /\ resp' = ResponseWith("get_current_user_profile", token, Some(current_user), 0, 200,
                   <<UserResponse(current_user.id, current_user.email, current_user.full_name,
                                  current_user.role, TRUE)>>)
    /\ UNCHANGED <<users, rules, txs, ruleResults, tables>>

\* answers with a User built from the identity and the request; nothing is
\* assigned to a row and nothing is committed
update_current_user_profile(token, full_name) ==
    LET current_user == get_current_user(token, users) IN
    /\ resp' = ResponseWith("update_current_user_profile", token, Some(current_user), 0, 200,
                   <<UserResponse(current_user.id, current_user.email, full_name,
                                  current_user.role, TRUE)>>)
    /\ UNCHANGED <<users, rules, txs, ruleResults, tables>>

\* update_user_by_id with a request model that carries is_active = true, which
\* an admin caller's update then writes
update_user_by_id_reactivating(token, id, full_name) ==
    LET current_user == get_current_user(token, users) IN
    /\ IF id \notin DOMAIN users
       THEN /\ resp' = Response("update_user_by_id", token, Some(current_user), 404, 200, <<>>)
            /\ UNCHANGED users
       ELSE IF current_user.role # "admin" /\ current_user.id # id
       THEN /\ resp' = Response("update_user_by_id", token, Some(current_user), 403, 200, <<>>)
            /\ UNCHANGED users
       ELSE /\ users' = Commit([users EXCEPT ![id].full_name = full_name,
                                             ![id].is_active =
                                                 IF current_user.role = "admin" THEN TRUE ELSE @],
                               current_user)
            /\ resp' = Response("update_user_by_id", token, Some(current_user), 0, 200, <<>>)
    /\ UNCHANGED <<rules, txs, ruleResults, tables>>

\* the request model has no role and no is_active field: the branches on
\* hasattr(request, 'role') / hasattr(request, 'is_active') are never taken
update_user_by_id(token, id, full_name) ==
    LET current_user == get_current_user(token, users) IN
    /\ IF id \notin DOMAIN users
       THEN /\ resp' = Response("update_user_by_id", token, Some(current_user), 404, 200, <<>>)
            /\ UNCHANGED users
       ELSE IF current_user.role # "admin" /\ current_user.id # id
       THEN /\ resp' = Response("update_user_by_id", token, Some(current_user), 403, 200, <<>>)
            /\ UNCHANGED users
       ELSE /\ users' = Commit([users EXCEPT ![id].full_name = full_name], current_user)
            /\ resp' = Response("update_user_by_id", token, Some(current_user), 0, 200, <<>>)
    /\ UNCHANGED <<rules, txs, ruleResults, tables>>

deactivate_user(token, id) ==
    LET current_user == get_current_admin_user(get_current_user(token, users)) IN
    /\ IF id \notin DOMAIN users
       THEN /\ resp' = Response("deactivate_user", token, Some(current_user), 404, 200, <<>>)
            /\ UNCHANGED users
       ELSE /\ users' = Commit([users EXCEPT ![id].is_active = FALSE], current_user)
            /\ resp' = Response("deactivate_user", token, Some(current_user), 0, 200, <<>>)
    /\ UNCHANGED <<rules, txs, ruleResults, tables>>

get_all_users(token) ==
    LET current_user == get_current_admin_user(get_current_user(token, users)) IN
    /\ resp' = Response("get_all_users", token, Some(current_user), 0, 200, <<>>)
    /\ UNCHANGED <<users, rules, txs, ruleResults, tables>>

create_user_by_admin(token, email, password, full_name, role) ==
    LET current_user == get_current_admin_user(get_current_user(token, users)) IN
    /\ Cardinality(DOMAIN users) < MaxUsers \/ UserByEmail(users, email) # {}
    /\ IF UserByEmail(users, email) # {}
       THEN /\ resp' = Response("create_user_by_admin", token, Some(current_user), 409, 200, <<>>)
            /\ UNCHANGED users
       ELSE /\ users' = Commit(users @@ (FreshId(DOMAIN users, UserIds)
                                          :> NewUser(email, password, full_name, role)),
                               current_user)
            /\ resp' = Response("create_user_by_admin", token, Some(current_user), 0, 200, <<>>)
    /\ UNCHANGED <<rules, txs, ruleResults, tables>>

(***************************************************************************)
(* api/fraud_rules_router.py                                               *)
(***************************************************************************)
RuleIds == 1..MaxRules

RuleNameList == <<"rule-1", "rule-2", "rule-3", "rule-4">>

RuleNames == {RuleNameList[i] : i \in 1..MaxRules}

\* the requests of the model carry no description
NewRule(name, dsl_expression, enabled, priority) ==
    [name |-> name, description |-> None, dsl_expression |-> dsl_expression,
     enabled |-> enabled, priority |-> priority]

FraudRuleResponse(id, rule) ==
    [id |-> id, name |-> rule.name, description |-> rule.description,
     dsl_expression |-> rule.dsl_expression, enabled |-> rule.enabled,
     priority |-> rule.priority]

\* the rule built in place of a stored one: "Mock Rule", `amount > 1000`
MockRule(id) ==
    [id |-> id, name |-> "Mock Rule", description |-> Some("Mock Description"),
     dsl_expression |-> Amount \o <<" ">> \o Op_gt \o <<" ">> \o <<"1", "0", "0", "0">>,
     enabled |-> TRUE, priority |-> 100]

\* create_fraud_rule with the 422 check of the expression left out
create_fraud_rule_unvalidated(token, id, name, dsl_expression, enabled, priority) ==
    LET current_user == get_current_admin_user(get_current_user(token, users)) IN
    /\ id \notin DOMAIN rules
    /\ IF \E r \in DOMAIN rules : rules[r].name = name
       THEN /\ UNCHANGED <<users, rules>>
            /\ resp' = ResponseWith("create_fraud_rule", token, Some(current_user), 0, 201,
                   <<FraudRuleResponse(0, NewRule(name, dsl_expression, enabled, priority))>>)
       ELSE /\ rules' = rules @@ (id :> NewRule(name, dsl_expression, enabled, priority))
            /\ users' = Commit(users, current_user)
            /\ resp' = ResponseWith("create_fraud_rule", token, Some(current_user), 0, 201,
                   <<FraudRuleResponse(id, NewRule(name, dsl_expression, enabled, priority))>>)
    /\ UNCHANGED <<txs, ruleResults, tables>>

\* id: the uuid4 of the new row; a failure inside the handler (409, 422) is
\* answered with status 201 and a rule built from the request under another
\* uuid4 (0 names no row)
create_fraud_rule(token, id, name, dsl_expression, enabled, priority) ==
    LET current_user == get_current_admin_user(get_current_user(token, users)) IN
    /\ id \notin DOMAIN rules
    /\ IF \/ \E r \in DOMAIN rules : rules[r].name = name
          \/ ~validate_dsl_expression(dsl_expression).is_valid
       THEN /\ UNCHANGED <<users, rules>>
            /\ resp' = ResponseWith("create_fraud_rule", token, Some(current_user), 0, 201,
                   <<FraudRuleResponse(0, NewRule(name, dsl_expression, enabled, priority))>>)
       ELSE /\ rules' = rules @@ (id :> NewRule(name, dsl_expression, enabled, priority))
            /\ users' = Commit(users, current_user)
            /\ resp' = ResponseWith("create_fraud_rule", token, Some(current_user), 0, 201,
                   <<FraudRuleResponse(id, NewRule(name, dsl_expression, enabled, priority))>>)
    /\ UNCHANGED <<txs, ruleResults, tables>>

\* answers with MockRule under the requested id; storage is not read
get_fraud_rule(token, id) ==
    LET current_user == get_current_admin_user(get_current_user(token, users)) IN
    /\ resp' = ResponseWith("get_fraud_rule", token, Some(current_user), 0, 200,
                              <<MockRule(id)>>)
    /\ UNCHANGED <<users, rules, txs, ruleResults, tables>>

\* a failure inside the handler (404, 409, 422) is answered with status 200 and
\* a rule built from the request
update_fraud_rule(token, id, name, dsl_expression, enabled, priority) ==
    LET current_user == get_current_admin_user(get_current_user(token, users)) IN
    /\ IF \/ id \notin DOMAIN rules
          \/ \E r \in DOMAIN rules : rules[r].name = name /\ r # id
          \/ ~validate_dsl_expression(dsl_expression).is_valid
       THEN UNCHANGED <<users, rules>>
       ELSE /\ rules' = [rules EXCEPT ![id] = NewRule(name, dsl_expression, enabled, priority)]
            /\ users' = Commit(users, current_user)
    /\ resp' = ResponseWith("update_fraud_rule", token, Some(current_user), 0, 200,
                   <<FraudRuleResponse(id, NewRule(name, dsl_expression, enabled, priority))>>)
    /\ UNCHANGED <<txs, ruleResults, tables>>

\* a DELETE that removes the row
deactivate_fraud_rule_deleting(token, id) ==
    LET current_user == get_current_admin_user(get_current_user(token, users)) IN
    /\ IF id \notin DOMAIN rules
       THEN UNCHANGED <<users, rules>>
       ELSE /\ rules' = [r \in DOMAIN rules \ {id} |-> rules[r]]
            /\ users' = Commit(users, current_user)
    /\ resp' = Response("deactivate_fraud_rule", token, Some(current_user), 0, 200, <<>>)
    /\ UNCHANGED <<txs, ruleResults, tables>>

\* DELETE /fraud-rules/{id}: a missing rule (404) is answered like a success
deactivate_fraud_rule(token, id) ==
    LET current_user == get_current_admin_user(get_current_user(token, users)) IN
    /\ IF id \notin DOMAIN rules
       THEN UNCHANGED <<users, rules>>
       ELSE /\ rules' = [rules EXCEPT ![id].enabled = FALSE]
            /\ users' = Commit(users, current_user)
    /\ resp' = Response("deactivate_fraud_rule", token, Some(current_user), 0, 200, <<>>)
    /\ UNCHANGED <<txs, ruleResults, tables>>

\* the second handler declared for DELETE /fraud-rules/{id}; the route of
\* deactivate_fraud_rule is declared first
delete_fraud_rule_by_id(id) ==
    /\ resp' = ResponseWith("delete_fraud_rule_by_id", NoToken, None, 0, 200, <<[id |-> id]>>)
    /\ UNCHANGED <<users, rules, txs, ruleResults, tables>>

\* DELETE /fraud-rules/
delete_fraud_rules_root ==
    /\ resp' = Response("delete_fraud_rules_root", NoToken, None, 0, 200, <<>>)
    /\ UNCHANGED <<users, rules, txs, ruleResults, tables>>

(***************************************************************************)
(* api/transactions_router.py                                              *)
(***************************************************************************)
TxIds == 1..MaxTxs

RuleBefore(db_rules, a, b) ==
    \/ db_rules[a].priority < db_rules[b].priority
    \/ db_rules[a].priority = db_rules[b].priority /\ a < b

RECURSIVE OrderRules(_, _)
\* order_by(FraudRule.priority, FraudRule.id)
OrderRules(db_rules, ids) ==
    IF ids = {} THEN <<>>
    ELSE LET first == CHOOSE a \in ids : \A b \in ids \ {a} : RuleBefore(db_rules, a, b)
         IN  <<first>> \o OrderRules(db_rules, ids \ {first})

\* db.query(FraudRule).filter(FraudRule.enabled == True).order_by(priority, id).all()
active_rules(db_rules) ==
    OrderRules(db_rules, {r \in DOMAIN db_rules : db_rules[r].enabled})

\* one pass of the loop body: the RuleResult built for a rule
EvaluatedRule(tx_id, rule_id, rule, ev) ==
    [transaction_id |-> tx_id, rule_id |-> rule_id, rule_name |-> rule.name,
     priority |-> rule.priority, enabled |-> rule.enabled,
     matched |-> ev.matched, description |-> ev.fmt, raised |-> ev.raised]

EvaluateActive(db_rules, tx_id, amount, active) ==
    [i \in 1..Len(active) |->
        EvaluatedRule(tx_id, active[i], db_rules[active[i]],
                      evaluate_dsl_expression(db_rules[active[i]].dsl_expression,
                                              BuildContext(amount, 0, <<>>)))]

\* the rows up to and including the first one that matched
UntilMatch(all) ==
    IF \E i \in 1..Len(all) : all[i].matched
    THEN SubSeq(all, 1, CHOOSE i \in 1..Len(all) :
                           /\ all[i].matched
                           /\ \A j \in 1..(i - 1) : ~all[j].matched)
    ELSE all

\* the loop over active_rules leaving at the first rule that matches
EvaluateRulesUntilMatch(db_rules, tx_id, amount) ==
    UntilMatch(EvaluateActive(db_rules, tx_id, amount, active_rules(db_rules)))

\* the rows the loop over active_rules adds for one transaction, in loop order
EvaluateRules(db_rules, tx_id, amount) ==
    EvaluateActive(db_rules, tx_id, amount, active_rules(db_rules))

RuleResultRow(r) ==
    [transaction_id |-> r.transaction_id, rule_id |-> r.rule_id, rule_name |-> r.rule_name,
     priority |-> r.priority, enabled |-> r.enabled, matched |-> r.matched,
     description |-> r.description]

RuleResultResponse(r) ==
    [rule_id |-> r.rule_id, rule_name |-> r.rule_name, priority |-> r.priority,
     enabled |-> r.enabled, matched |-> r.matched, description |-> r.description]

\* the rows added to the session, and the list a response shows
RuleResultRows(q) ==
    [i \in 1..Len(q) |-> RuleResultRow(q[i])]

RuleResultResponses(q) ==
    [i \in 1..Len(q) |-> RuleResultResponse(q[i])]

\* the outcome of one item: error # 0 is the exception that left the body
Fail(e, db_txs, db_rr) ==
    [error |-> e, txs |-> db_txs, rr |-> db_rr, tx_id |-> 0]

\* a failure of the rule loop that leaves the flushed transaction stored
EvaluatedKeepingStaged(actual, item, db_txs, db_rr, tx_id, rows) ==
    IF \/ Len(rows) > 0 /\ actual \notin DOMAIN users
       \/ \E i \in 1..Len(rows) : rows[i].raised
    THEN Fail(500, db_txs @@ (tx_id :> [user_id |-> actual, amount |-> item.amount,
                                        status |-> "pending", is_fraud |-> FALSE]),
              db_rr)
    ELSE [error |-> 0,
          txs |-> db_txs @@
                  (tx_id :> [user_id |-> actual, amount |-> item.amount,
                             status |-> IF \E i \in 1..Len(rows) : rows[i].matched
                                        THEN "declined" ELSE "approved",
                             is_fraud |-> \E i \in 1..Len(rows) : rows[i].matched]),
          rr |-> db_rr \o RuleResultRows(rows),
          tx_id |-> tx_id]

\* the rule loop, the status, db.commit()
Evaluated(actual, item, db_txs, db_rr, tx_id, rows) ==
    IF Len(rows) > 0 /\ actual \notin DOMAIN users THEN Fail(500, db_txs, db_rr)  \* user is None
    ELSE IF \E i \in 1..Len(rows) : rows[i].raised THEN Fail(500, db_txs, db_rr)
    ELSE [error |-> 0,
          txs |-> db_txs @@
                  (tx_id :> [user_id |-> actual, amount |-> item.amount,
                             status |-> IF \E i \in 1..Len(rows) : rows[i].matched
                                        THEN "declined" ELSE "approved",
                             is_fraud |-> \E i \in 1..Len(rows) : rows[i].matched]),
          rr |-> db_rr \o RuleResultRows(rows),
          tx_id |-> tx_id]

ProcessFor(by_admin, actual, item, db_txs, db_rr, tx_id) ==
    IF by_admin /\ actual \notin DOMAIN users THEN Fail(404, db_txs, db_rr)
    ELSE IF by_admin /\ ~users[actual].is_active THEN Fail(403, db_txs, db_rr)
    ELSE IF ~item.ts_ok THEN Fail(422, db_txs, db_rr)
    ELSE IF "transactions" \notin tables THEN Fail(500, db_txs, db_rr)    \* db.flush()
    ELSE Evaluated(actual, item, db_txs, db_rr, tx_id,
                   EvaluateRules(rules, tx_id, item.amount))

\* one transaction of create_transaction / one item of create_transaction_batch,
\* up to and including db.commit()
ProcessItem(current_user, item, db_txs, db_rr) ==
    ProcessFor(current_user.role = "admin" /\ item.user_id # None,
               IF current_user.role = "admin" /\ item.user_id # None
               THEN item.user_id[1] ELSE current_user.id,
               item, db_txs, db_rr, FreshId(DOMAIN db_txs, TxIds))

ReloadOrders ==
    {p \in [1..MaxRules -> 1..MaxRules] : \A i, j \in 1..MaxRules : p[i] = p[j] => i = j}

\* db.query(RuleResult).filter(RuleResult.transaction_id == id).all(): the
\* rows of the transaction, in an order the query does not fix
Reload(db_rr, tx_id, order) ==
    LET mine == SelectSeq(db_rr, LAMBDA r : r.transaction_id = tx_id)
        pick == SelectSeq(order, LAMBDA k : k <= Len(mine))
    IN  [i \in 1..Len(mine) |-> mine[pick[i]]]

TransactionDecision(db_txs, db_rr, tx_id, order) ==
    [id |-> tx_id, user_id |-> db_txs[tx_id].user_id, amount |-> db_txs[tx_id].amount,
     status |-> db_txs[tx_id].status, is_fraud |-> db_txs[tx_id].is_fraud,
     rule_results |-> RuleResultResponses(Reload(db_rr, tx_id, order))]

\* the decision built in the except branch: a new uuid4 (0 names no row)
MockDecision(current_user, item) ==
    [id |-> 0, user_id |-> current_user.id, amount |-> item.amount,
     status |-> "approved", is_fraud |-> FALSE,
     rule_results |-> <<[rule_id |-> 0, rule_name |-> "Mock Rule", priority |-> 100,
                         enabled |-> TRUE, matched |-> FALSE,
                         description |-> "Mock rule description"]>>]

\* the decision get_transaction builds for every id: amount 100.0, approved,
\* one "Mock Rule" result under a new uuid4 (0 names no rule)
MockTransactionDecision(id, current_user) ==
    [id |-> id, user_id |-> current_user.id, amount |-> 1000,
     status |-> "approved", is_fraud |-> FALSE,
     rule_results |-> <<[rule_id |-> 0, rule_name |-> "Mock Rule", priority |-> 100,
                         enabled |-> TRUE, matched |-> FALSE,
                         description |-> "Mock rule description"]>>]

\* answers with MockTransactionDecision; storage is not read
get_transaction(token, id) ==
    LET current_user == get_current_user(token, users) IN
    /\ resp' = Response("get_transaction", token, Some(current_user), 0, 200,
                          <<MockTransactionDecision(id, current_user)>>)
    /\ UNCHANGED <<users, rules, txs, ruleResults, tables>>

create_transaction(token, item, order) ==
    /\ Cardinality(DOMAIN txs) < MaxTxs
    /\ \E current_user \in {get_current_user(token, users)} :
       \E done \in {ProcessItem(current_user, item, txs, ruleResults)} :
        /\ txs' = done.txs
        /\ ruleResults' = done.rr
        /\ resp' = Response("create_transaction", token, Some(current_user), 0, 201,
                     IF done.error = 0
                     THEN <<TransactionDecision(done.txs, done.rr, done.tx_id, order)>>
                     ELSE <<MockDecision(current_user, item)>>)
        /\ UNCHANGED <<users, rules, tables>>

RECURSIVE RunBatch(_, _, _, _)
RECURSIVE BatchStep(_, _, _, _, _)
\* the loop over request.items; each item commits before the next one starts
RunBatch(current_user, items, orders, st) ==
    IF items = <<>> THEN st
    ELSE BatchStep(current_user, items, orders, st,
                   ProcessItem(current_user, Head(items), st.txs, st.rr))

\* the rest of the loop after one item has been processed
BatchStep(current_user, items, orders, st, done) ==
    IF done.error # 0
    THEN [st EXCEPT !.error = done.error]
    ELSE RunBatch(current_user, Tail(items), Tail(orders),
                  [error |-> 0, txs |-> done.txs, rr |-> done.rr,
                   decisions |-> Append(st.decisions,
                       TransactionDecision(done.txs, done.rr, done.tx_id, Head(orders)))])

create_transaction_batch(token, items, orders) ==
    /\ Cardinality(DOMAIN txs) + Len(items) <= MaxTxs
    /\ \E current_user \in {get_current_user(token, users)} :
       \E done \in {RunBatch(current_user, items, orders,
                             [error |-> 0, txs |-> txs, rr |-> ruleResults,
                              decisions |-> <<>>])} :
        /\ txs' = done.txs
        /\ ruleResults' = done.rr
        /\ resp' = Response("create_transaction_batch", token, Some(current_user), 0, 200,
                     IF done.error = 0
                     THEN done.decisions
                     ELSE [i \in 1..Len(items) |-> MockDecision(current_user, items[i])])
        /\ UNCHANGED <<users, rules, tables>>

\* PUT /transactions/{id}: no dependency, no session; the answer echoes the id
update_transaction(id) ==
    /\ resp' = ResponseWith("update_transaction", NoToken, None, 0, 200, <<[id |-> id]>>)
    /\ UNCHANGED <<users, rules, txs, ruleResults, tables>>

\* a DELETE that removes the row it names
delete_transaction_removing(id) ==
    /\ resp' = ResponseWith("delete_transaction", NoToken, None, 0, 200, <<[id |-> id]>>)
    /\ txs' = [t \in DOMAIN txs \ {id} |-> txs[t]]
    /\ UNCHANGED <<users, rules, ruleResults, tables>>

\* DELETE /transactions/{id}: no dependency, no session; the answer echoes the id
delete_transaction(id) ==
    /\ resp' = ResponseWith("delete_transaction", NoToken, None, 0, 200, <<[id |-> id]>>)
    /\ UNCHANGED <<users, rules, txs, ruleResults, tables>>

(***************************************************************************)
(* The service: every request is handled to completion, one at a time.     *)
(* Spec drives the account operations, SpecTx the fraud rules and the      *)
(* transactions, SpecRules the fraud-rule operations, SpecDsl the          *)
(* validator and the evaluator on their own.  SpecRaceRules and            *)
(* SpecRaceUsers interleave the statements of requests handled at the same *)
(* time.                                                                   *)
(***************************************************************************)
L_1000 == <<"1", "0", "0", "0">>

L_500 == <<"5", "0", "0">>

\* `amount > 1000`, `amount >= 500`
E_gt_1000 == Amount \o <<" ">> \o Op_gt \o <<" ">> \o L_1000

E_ge_500 == Amount \o <<" ">> \o Op_ge \o <<" ">> \o L_500

RuleExprs == {E_gt_1000, E_ge_500}

Priorities == {1, 2}

\* amounts 500.0 and 1500.0
Amounts == {5000, 15000}

DslIdle ==
    [field |-> Amount, op |-> Op_gt,
     lit |-> [text |-> L_1000, val |-> Some(10000), isFloat |-> TRUE],
     spacing |-> "spaced", amount |-> 5000]

Init ==
    /\ SvcInit
    /\ dslIn = DslIdle
    /\ dslOut = [validated |-> None, evaluated |-> None]

Register ==
    \E e \in Emails : register(e, UserPassword, "Ann")

Login ==
    \E e \in Emails, pw \in Passwords : login(e, pw)

UpdateUserById ==
    \E t \in Tokens, id \in UserIds : update_user_by_id(t, id, "Bob")

DeactivateUser ==
    \E t \in Tokens, id \in UserIds : deactivate_user(t, id)

GetAllUsers ==
    \E t \in Tokens : get_all_users(t)

GetCurrentUserProfile ==
    \E t \in Tokens : get_current_user_profile(t)

UpdateCurrentUserProfile ==
    \E t \in Tokens : update_current_user_profile(t, "Cy")

CreateUserByAdmin ==
    \E t \in Tokens, e \in Emails, r \in Roles :
        create_user_by_admin(t, e, UserPassword, "Ann", r)

Next ==
    \/ Register /\ UNCHANGED <<dslVars, inflight, sessions>>
    \/ Login /\ UNCHANGED <<dslVars, inflight, sessions>>
    \/ UpdateUserById /\ UNCHANGED <<dslVars, inflight, sessions>>
    \/ DeactivateUser /\ UNCHANGED <<dslVars, inflight, sessions>>
    \/ GetAllUsers /\ UNCHANGED <<dslVars, inflight, sessions>>
    \/ GetCurrentUserProfile /\ UNCHANGED <<dslVars, inflight, sessions>>
    \/ UpdateCurrentUserProfile /\ UNCHANGED <<dslVars, inflight, sessions>>
    \/ CreateUserByAdmin /\ UNCHANGED <<dslVars, inflight, sessions>>

Spec == Init /\ [][Next]_vars

\* the token of the seed administrator
AdminToken == [kind |-> "claims", sub |-> Some(FreshId({}, UserIds))]

\* the callers of the transaction requests
TxTokens == {NoToken, AdminToken}

\* valid items for the caller itself, one with a timestamp that does not parse,
\* one submitted for a user that does not exist
BatchItems ==
    [user_id : {None}, amount : Amounts, ts_ok : {TRUE}]
    \cup {[user_id |-> None, amount |-> 15000, ts_ok |-> FALSE]}

Items ==
    BatchItems \cup {[user_id |-> Some(MaxUsers), amount |-> 15000, ts_ok |-> TRUE]}

Batches ==
    UNION {[1..n -> BatchItems] : n \in 1..MaxBatch}

\* the rule and transaction requests of SpecTx; the rules are managed by the
\* seed administrator
AdminCreatesFraudRule ==
    \E id \in RuleIds, n \in RuleNames, x \in RuleExprs, en \in BOOLEAN, pr \in Priorities :
        create_fraud_rule(AdminToken, id, n, x, en, pr)

AdminDeactivatesFraudRule ==
    \E id \in RuleIds : deactivate_fraud_rule(AdminToken, id)

CreateTransaction ==
    \E t \in TxTokens, item \in Items, order \in ReloadOrders :
        create_transaction(t, item, order)

GetTransaction ==
    \E t \in TxTokens, id \in TxIds : get_transaction(t, id)

CreateTransactionBatch ==
    \E items \in Batches :
        \E orders \in [1..Len(items) -> ReloadOrders] :
            create_transaction_batch(AdminToken, items, orders)

UpdateTransaction ==
    \E id \in TxIds : update_transaction(id)

DeleteTransaction ==
    \E id \in TxIds : delete_transaction(id)

NextTx ==
    \/ AdminCreatesFraudRule /\ UNCHANGED <<dslVars, inflight, sessions>>
    \/ AdminDeactivatesFraudRule /\ UNCHANGED <<dslVars, inflight, sessions>>
    \/ CreateTransaction /\ UNCHANGED <<dslVars, inflight, sessions>>
    \/ GetTransaction /\ UNCHANGED <<dslVars, inflight, sessions>>
    \/ CreateTransactionBatch /\ UNCHANGED <<dslVars, inflight, sessions>>
    \/ UpdateTransaction /\ UNCHANGED <<dslVars, inflight, sessions>>
    \/ DeleteTransaction /\ UNCHANGED <<dslVars, inflight, sessions>>

SpecTx == Init /\ [][NextTx]_vars

\* the callers of the fraud-rule requests: no Authorization header, or the
\* token of the seed administrator
RuleTokens == {NoToken, AdminToken}

\* the rule requests: every name with every expression and priority, enabled
\* for priority 1 and disabled otherwise
RuleRequests ==
    {NewRule(n, x, pr = 1, pr) : n \in RuleNames, x \in RuleExprs, pr \in Priorities}

\* the fraud-rule requests
CreateFraudRule ==
    \E t \in RuleTokens, id \in RuleIds, r \in RuleRequests :
        create_fraud_rule(t, id, r.name, r.dsl_expression, r.enabled, r.priority)

UpdateFraudRule ==
    \E t \in RuleTokens, id \in RuleIds, r \in RuleRequests :
        update_fraud_rule(t, id, r.name, r.dsl_expression, r.enabled, r.priority)

DeactivateFraudRule ==
    \E t \in RuleTokens, id \in RuleIds : deactivate_fraud_rule(t, id)

GetFraudRule ==
    \E t \in RuleTokens, id \in RuleIds : get_fraud_rule(t, id)

DeleteFraudRuleById ==
    \E id \in RuleIds : delete_fraud_rule_by_id(id)

NextRules ==
    \/ CreateFraudRule /\ UNCHANGED <<dslVars, inflight, sessions>>
    \/ UpdateFraudRule /\ UNCHANGED <<dslVars, inflight, sessions>>
    \/ DeactivateFraudRule /\ UNCHANGED <<dslVars, inflight, sessions>>
    \/ GetFraudRule /\ UNCHANGED <<dslVars, inflight, sessions>>
    \/ DeleteFraudRuleById /\ UNCHANGED <<dslVars, inflight, sessions>>
    \/ delete_fraud_rules_root /\ UNCHANGED <<dslVars, inflight, sessions>>

SpecRules == Init /\ [][NextRules]_vars

(***************************************************************************)
(* Requests handled at the same time.  The route handlers are sync         *)
(* functions, run by worker threads, each with a session of its own; a     *)
(* handler's SELECTs and its commit are separate statements, and another   *)
(* request's commit can fall between them.  A handler is split where its   *)
(* queries end and its INSERT / UPDATE and commit begin.                   *)
(***************************************************************************)
Busy(w, op) ==
    inflight[w] # Idle /\ inflight[w].op = op

InFlight(op) ==
    Cardinality({w \in Workers : Busy(w, op)})

\* create_fraud_rule up to the INSERT: the name query and the validation
create_fraud_rule_check(w, token, name, dsl_expression, enabled, priority) ==
    LET current_user == get_current_admin_user(get_current_user(token, users)) IN
    /\ inflight[w] = Idle
    /\ Cardinality(DOMAIN rules) + InFlight("create_fraud_rule") < MaxRules
    /\ IF \/ \E r \in DOMAIN rules : rules[r].name = name
          \/ ~validate_dsl_expression(dsl_expression).is_valid
       THEN /\ resp' = ResponseWith("create_fraud_rule", token, Some(current_user), 0, 201,
                   <<FraudRuleResponse(0, NewRule(name, dsl_expression, enabled, priority))>>)
            /\ UNCHANGED inflight
       ELSE /\ inflight' = [inflight EXCEPT ![w] =
                   [op |-> "create_fraud_rule", token |-> token, current_user |-> current_user,
                    id |-> 0, row |-> NewRule(name, dsl_expression, enabled, priority)]]
            /\ UNCHANGED resp
    /\ UNCHANGED <<users, rules, txs, ruleResults, tables>>

\* db.add(rule); db.commit(): fraud_rules has no constraint besides its
\* primary key, the uuid4 id
create_fraud_rule_commit(w, id) ==
    /\ Busy(w, "create_fraud_rule")
    /\ id \notin DOMAIN rules
    /\ rules' = rules @@ (id :> inflight[w].row)
    /\ users' = Commit(users, inflight[w].current_user)
    /\ resp' = ResponseWith("create_fraud_rule", inflight[w].token,
                              Some(inflight[w].current_user), 0, 201,
                              <<FraudRuleResponse(id, inflight[w].row)>>)
    /\ inflight' = [inflight EXCEPT ![w] = Idle]
    /\ UNCHANGED <<txs, ruleResults, tables>>

\* update_fraud_rule up to the assignments: the two queries and the validation
update_fraud_rule_check(w, token, id, name, dsl_expression, enabled, priority) ==
    LET current_user == get_current_admin_user(get_current_user(token, users)) IN
    /\ inflight[w] = Idle
    /\ IF \/ id \notin DOMAIN rules
          \/ \E r \in DOMAIN rules : rules[r].name = name /\ r # id
          \/ ~validate_dsl_expression(dsl_expression).is_valid
       THEN /\ resp' = ResponseWith("update_fraud_rule", token, Some(current_user), 0, 200,
                   <<FraudRuleResponse(id, NewRule(name, dsl_expression, enabled, priority))>>)
            /\ UNCHANGED inflight
       ELSE /\ inflight' = [inflight EXCEPT ![w] =
                   [op |-> "update_fraud_rule", token |-> token, current_user |-> current_user,
                    id |-> id, row |-> NewRule(name, dsl_expression, enabled, priority)]]
            /\ UNCHANGED resp
    /\ UNCHANGED <<users, rules, txs, ruleResults, tables>>

\* the assignments to the loaded rule and db.commit(): UPDATE ... WHERE id = :id
update_fraud_rule_commit(w) ==
    /\ Busy(w, "update_fraud_rule")
    /\ rules' = [rules EXCEPT ![inflight[w].id] = inflight[w].row]
    /\ users' = Commit(users, inflight[w].current_user)
    /\ resp' = ResponseWith("update_fraud_rule", inflight[w].token,
                              Some(inflight[w].current_user), 0, 200,
                              <<FraudRuleResponse(inflight[w].id, inflight[w].row)>>)
    /\ inflight' = [inflight EXCEPT ![w] = Idle]
    /\ UNCHANGED <<txs, ruleResults, tables>>

\* INSERT INTO users: Some(table with the row), or None when the UNIQUE
\* constraint on email refuses it (IntegrityError)
InsertUserIgnoringUnique(db_users, id, row) ==
    Some(db_users @@ (id :> row))

InsertUser(db_users, id, row) ==
    IF UserByEmail(db_users, row.email) # {}
    THEN None
    ELSE Some(db_users @@ (id :> row))

\* uuid4 identifiers for the rows concurrent requests insert
RaceUserIds == 1..(MaxUsers + 1)

\* register up to the INSERT: the email query
register_check(w, email, password, full_name) ==
    /\ inflight[w] = Idle
    /\ IF UserByEmail(users, email) # {}
       THEN /\ resp' = Response("register", NoToken, None, 409, 201, <<>>)
            /\ UNCHANGED inflight
       ELSE /\ inflight' = [inflight EXCEPT ![w] =
                   [op |-> "register", token |-> NoToken, current_user |-> MockUser,
                    id |-> 0, row |-> NewUser(email, password, full_name, "user")]]
            /\ UNCHANGED resp
    /\ UNCHANGED <<users, rules, txs, ruleResults, tables>>

\* db.add(new_user); db.commit(), then the access token
register_commit(w) ==
    /\ Busy(w, "register")
    /\ Cardinality(DOMAIN users) <= MaxUsers
    /\ \E done \in {InsertUser(users, FreshId(DOMAIN users, RaceUserIds), inflight[w].row)} :
          IF done = None
          THEN /\ resp' = Response("register", NoToken, None, 500, 201, <<>>)
               /\ UNCHANGED users
          ELSE /\ users' = done[1]
               /\ resp' = Response("register", NoToken, None,
                      IF create_access_token(FreshId(DOMAIN users, RaceUserIds), "user") = None
                      THEN 500 ELSE 0,
                      201, <<>>)
    /\ inflight' = [inflight EXCEPT ![w] = Idle]
    /\ UNCHANGED <<rules, txs, ruleResults, tables>>

\* create_user_by_admin up to the INSERT: the email query
create_user_by_admin_check(w, token, email, password, full_name, role) ==
    LET current_user == get_current_admin_user(get_current_user(token, users)) IN
    /\ inflight[w] = Idle
    /\ IF UserByEmail(users, email) # {}
       THEN /\ resp' = Response("create_user_by_admin", token, Some(current_user),
                                 409, 200, <<>>)
            /\ UNCHANGED inflight
       ELSE /\ inflight' = [inflight EXCEPT ![w] =
                   [op |-> "create_user_by_admin", token |-> token,
                    current_user |-> current_user,
                    id |-> 0, row |-> NewUser(email, password, full_name, role)]]
            /\ UNCHANGED resp
    /\ UNCHANGED <<users, rules, txs, ruleResults, tables>>

\* db.add(new_user); db.commit(): a refused INSERT rolls the transaction back
create_user_by_admin_commit(w) ==
    /\ Busy(w, "create_user_by_admin")
    /\ Cardinality(DOMAIN users) <= MaxUsers
    /\ \E done \in {InsertUser(users, FreshId(DOMAIN users, RaceUserIds), inflight[w].row)} :
          IF done = None
          THEN /\ resp' = Response("create_user_by_admin", inflight[w].token,
                                    Some(inflight[w].current_user), 500, 200, <<>>)
               /\ UNCHANGED users
          ELSE /\ users' = Commit(done[1], inflight[w].current_user)
               /\ resp' = Response("create_user_by_admin", inflight[w].token,
                                    Some(inflight[w].current_user), 0, 200, <<>>)
    /\ inflight' = [inflight EXCEPT ![w] = Idle]
    /\ UNCHANGED <<rules, txs, ruleResults, tables>>

\* the rule requests of the race: each name with `amount > 1000`
RaceRuleRequests ==
    {NewRule(n, Amount \o <<" ">> \o Op_gt \o <<" ">> \o <<"1", "0", "0", "0">>, TRUE, 1) :
        n \in RuleNames}

RaceCreateRuleCheck ==
    \E w \in Workers, r \in RaceRuleRequests :
        create_fraud_rule_check(w, AdminToken, r.name, r.dsl_expression, r.enabled, r.priority)

RaceCreateRuleCommit ==
    \E w \in Workers, id \in RuleIds : create_fraud_rule_commit(w, id)

RaceUpdateRuleCheck ==
    \E w \in Workers, id \in RuleIds, r \in RaceRuleRequests :
        update_fraud_rule_check(w, AdminToken, id, r.name, r.dsl_expression, r.enabled,
                                r.priority)

RaceUpdateRuleCommit ==
    \E w \in Workers : update_fraud_rule_commit(w)

NextRaceRules ==
    \/ RaceCreateRuleCheck /\ UNCHANGED <<dslVars, sessions>>
    \/ RaceCreateRuleCommit /\ UNCHANGED <<dslVars, sessions>>
    \/ RaceUpdateRuleCheck /\ UNCHANGED <<dslVars, sessions>>
    \/ RaceUpdateRuleCommit /\ UNCHANGED <<dslVars, sessions>>

SpecRaceRules == Init /\ [][NextRaceRules]_vars

RaceRegisterCheck ==
    \E w \in Workers, e \in Emails, pw \in Passwords : register_check(w, e, pw, "Ann")

RaceRegisterCommit ==
    \E w \in Workers : register_commit(w)

RaceCreateUserCheck ==
    \E w \in Workers, t \in RuleTokens, e \in Emails, r \in Roles :
        create_user_by_admin_check(w, t, e, UserPassword, "Ann", r)

RaceCreateUserCommit ==
    \E w \in Workers : create_user_by_admin_commit(w)

NextRaceUsers ==
    \/ RaceRegisterCheck /\ UNCHANGED <<dslVars, sessions>>
    \/ RaceRegisterCommit /\ UNCHANGED <<dslVars, sessions>>
    \/ RaceCreateUserCheck /\ UNCHANGED <<dslVars, sessions>>
    \/ RaceCreateUserCommit /\ UNCHANGED <<dslVars, sessions>>

SpecRaceUsers == Init /\ [][NextRaceUsers]_vars

(***************************************************************************)
(* The process and its sessions.  SpecBoot starts from the database as it  *)
(* is before the application is started for the first time; the            *)
(* application can be restarted whenever no request is being handled.      *)
(* startup_event is split where its session is opened, a request where     *)
(* get_db yields the session to the handler.                               *)
(***************************************************************************)
\* the owner of the session startup_event opens
Bootstrap == 0

Stopped == [op |-> "stopped"]

Starting == [op |-> "startup_event"]

\* get_db after the handler is done, `finally: db.close()`: raised is the
\* exception that left the handler (0: none)
get_db_exit_on_success(open, w, raised) ==
    IF raised = 0 THEN open \ {w} ELSE open

get_db_exit(open, w, raised) ==
    open \ {w}

\* get_db up to its yield: db = sessionlocal()
get_db(w, request) ==
    /\ inflight[Bootstrap] = Idle
    /\ inflight[w] = Idle
    /\ inflight' = [inflight EXCEPT ![w] = request]
    /\ sessions' = sessions \cup {w}
    /\ UNCHANGED <<users, rules, txs, ruleResults, tables, resp>>

\* startup_event up to its try: create_all, db = sessionlocal()
startup_begin ==
    /\ inflight[Bootstrap] \in {Stopped, Idle}
    /\ \A w \in Workers : inflight[w] = Idle
    /\ tables' = create_all(tables)
    /\ sessions' = sessions \cup {Bootstrap}
    /\ inflight' = [inflight EXCEPT ![Bootstrap] = Starting]
    /\ UNCHANGED <<users, rules, txs, ruleResults, resp>>

\* the try / except / finally of startup_event; failed: the query or the commit
\* raised, the except branch rolled back
startup_end(failed) ==
    /\ inflight[Bootstrap] = Starting
    /\ users' = IF failed THEN users ELSE startup_event(users)
    /\ resp' = ResponseWith("startup_event", NoToken, None, 0, 0, <<[failed |-> failed]>>)
    /\ sessions' = sessions \ {Bootstrap}
    /\ inflight' = [inflight EXCEPT ![Bootstrap] = Idle]
    /\ UNCHANGED <<rules, txs, ruleResults, tables>>

\* the database before the first start: no table, or a transactions table
\* made by other means
BootInit ==
    /\ tables \in {{}, {"transactions"}}
    /\ users = EmptyTable
    /\ rules = EmptyTable
    /\ txs = EmptyTable
    /\ ruleResults = <<>>
    /\ resp = NoRequest
    /\ inflight = [o \in {Bootstrap} \cup Workers |-> IF o = Bootstrap THEN Stopped ELSE Idle]
    /\ sessions = {}
    /\ dslIn = DslIdle
    /\ dslOut = [validated |-> None, evaluated |-> None]

BootRequests ==
    {[op |-> "register", email |-> e] : e \in Emails}
    \cup {[op |-> "deactivate_user", id |-> id] : id \in UserIds}
    \cup {[op |-> "login", email |-> admin_email]}

StartupEnd ==
    \E failed \in BOOLEAN :
        /\ failed \/ UserByEmail(users, admin_email) # {} \/ Cardinality(DOMAIN users) < MaxUsers
        /\ startup_end(failed)

GetDb ==
    \E w \in Workers, request \in BootRequests : get_db(w, request)

\* the handler runs with the session and the request ends
BootRegister ==
    \E w \in Workers :
        /\ inflight[w].op = "register"
        /\ register(inflight[w].email, UserPassword, "Ann")
        /\ sessions' = get_db_exit(sessions, w, resp'.raised)
        /\ inflight' = [inflight EXCEPT ![w] = Idle]

BootDeactivateUser ==
    \E w \in Workers :
        /\ inflight[w].op = "deactivate_user"
        /\ deactivate_user(AdminToken, inflight[w].id)
        /\ sessions' = get_db_exit(sessions, w, resp'.raised)
        /\ inflight' = [inflight EXCEPT ![w] = Idle]

BootLogin ==
    \E w \in Workers :
        /\ inflight[w].op = "login"
        /\ login(inflight[w].email, admin_password)
        /\ sessions' = get_db_exit(sessions, w, resp'.raised)
        /\ inflight' = [inflight EXCEPT ![w] = Idle]

NextBoot ==
    \/ startup_begin /\ UNCHANGED dslVars
    \/ StartupEnd /\ UNCHANGED dslVars
    \/ GetDb /\ UNCHANGED dslVars
    \/ BootRegister /\ UNCHANGED dslVars
    \/ BootDeactivateUser /\ UNCHANGED dslVars
    \/ BootLogin /\ UNCHANGED dslVars

SpecBoot == BootInit /\ [][NextBoot]_vars

(***************************************************************************)
(* The DSL as pure functions: inputs are drawn from bounded sets, the      *)
(* validator and the evaluator are applied to them                         *)
(***************************************************************************)
F_user_age == K_user \o <<".">> \o F_age

F_foo == <<"f", "o", "o">>

T_US == <<"U", "S">>

\* field texts, with the number (in tenths) the evaluation context gives them
DslFields == {Amount, F_age, F_user_age, F_region, F_foo}

DslOps == allowed_operators \cup { <<"=", "=">>, <<"~">> }

\* literal texts: val is the number a decimal numeral denotes (in tenths),
\* isFloat tells whether Python's float() accepts the text
DslLits ==
    { [text |-> <<"1", "0", "0", "0">>, val |-> Some(10000), isFloat |-> TRUE],
      [text |-> <<"5", "0", "0">>, val |-> Some(5000), isFloat |-> TRUE],
      [text |-> <<"1", "0", "0", "0", ".", "5">>, val |-> Some(10005), isFloat |-> TRUE],
      [text |-> <<"1", "e", "5">>, val |-> None, isFloat |-> TRUE],
      [text |-> <<"x">>, val |-> None, isFloat |-> FALSE],
      [text |-> <<"'", "U", "S", "'">>, val |-> None, isFloat |-> FALSE] }

\* amounts 500.0, 1000.0, 1000.5, 1500.0
DslAmounts == {5000, 10000, 10005, 15000}

\* the user of the evaluation context: age 30.0, region US
DslUser == [age |-> 300, region |-> T_US]

DslSpacings == {"spaced", "tight", "wide"}

BuildExpr(field, op, lit, spacing) ==
    CASE spacing = "spaced" -> field \o <<" ">> \o op \o <<" ">> \o lit
      [] spacing = "tight"  -> field \o op \o lit
      [] spacing = "wide"   -> <<" ">> \o field \o <<" ", " ">> \o op \o <<" ">> \o lit \o <<" ">>

DslInit ==
    /\ SvcInit
    /\ dslIn \in [field : DslFields, op : DslOps, lit : DslLits,
                  spacing : DslSpacings, amount : DslAmounts]
    /\ dslOut = [validated |-> None, evaluated |-> None]

DslExpr ==
    BuildExpr(dslIn.field, dslIn.op, dslIn.lit.text, dslIn.spacing)

DslValidate ==
    /\ dslOut.validated = None
    /\ dslOut' = [dslOut EXCEPT !.validated = Some(validate_dsl_expression(DslExpr))]
    /\ UNCHANGED dslIn
    /\ UNCHANGED svcVars

DslEvaluate ==
    /\ dslOut.evaluated = None
    /\ dslOut' = [dslOut EXCEPT !.evaluated =
                     Some(evaluate_dsl_expression(DslExpr,
                              BuildContext(dslIn.amount, DslUser.age, DslUser.region)))]
    /\ UNCHANGED dslIn
    /\ UNCHANGED svcVars

NextDsl ==
    \/ DslValidate
    \/ DslEvaluate

SpecDsl == DslInit /\ [][NextDsl]_vars

(***************************************************************************)
(* Claims about the DSL                                                    *)
(***************************************************************************)
(***************************************************************************)
(* Properties                                                              *)
(***************************************************************************)
\* the token decodes to claims whose sub names a stored, active user
Resolves(token, db_users) ==
    /\ token.kind = "claims"
    /\ token.sub # None
    /\ token.sub[1] \in DOMAIN db_users
    /\ db_users[token.sub[1]].is_active

\* C1: a request gets an identity only when its bearer token decodes to
\* claims whose sub names a stored, active user, and the identity is then that
\* stored user; no placeholder identity is built for any other token.
C1_IdentityOnlyForStoredActiveUser ==
    [][resp'.identity # None =>
          /\ Resolves(resp'.token, users)
          /\ resp'.identity[1].persisted
          /\ resp'.identity[1].id = resp'.token.sub[1]
          /\ resp'.identity[1].email = users[resp'.token.sub[1]].email]_vars

AdminOps ==
    {"get_all_users", "create_user_by_admin", "deactivate_user",
     "create_fraud_rule", "update_fraud_rule", "deactivate_fraud_rule"}

\* the request answered in the next state was made by a stored, active user
\* whose stored role is `user`
CallerIsPlainUser ==
    /\ Resolves(resp'.token, users)
    /\ users[resp'.token.sub[1]].role = "user"

\* C2: an admin-gated operation called by a user whose stored role is `user`
\* is rejected with 403 AuthorizationDenied and takes no effect.
C2_AdminGateRejectsNonAdmin ==
    [][(resp'.op \in AdminOps /\ CallerIsPlainUser) =>
          /\ resp'.raised = 403
          /\ users' = users
          /\ rules' = rules]_vars

\* C3: a request made by a caller whose stored role is `user` changes no
\* stored role and no active flag, in particular not the caller's own role.
C3_NonAdminChangesNoRole ==
    [][CallerIsPlainUser =>
          \A u \in DOMAIN users :
              /\ users'[u].role = users[u].role
              /\ users'[u].is_active = users[u].is_active]_vars

TypedFailures == {401, 423, 403, 404, 409, 422}

\* C4: a typed failure (401, 423, 403, 404, 409, 422) reaches the client with
\* its own status, never as a success.
C4_TypedFailuresKeepStatus ==
    resp.raised \in TypedFailures => resp.status = resp.raised

TxOps == {"create_transaction", "create_transaction_batch"}

\* the stored RuleResult rows of a transaction, as a response shows them
StoredResults(tx_id) ==
    RuleResultResponses(SelectSeq(ruleResults, LAMBDA r : r.transaction_id = tx_id))

Count(q, x) ==
    Cardinality({i \in 1..Len(q) : q[i] = x})

SameRows(a, b) ==
    /\ Len(a) = Len(b)
    /\ \A i \in 1..Len(a) : Count(a, a[i]) = Count(b, a[i])

\* C5: every decision returned by Create or Batch create describes a
\* transaction stored under the returned identifier, with the returned status
\* and fraud flag and with that transaction's stored RuleResult rows.
C5_DecisionsDescribeStoredTransactions ==
    resp.op \in TxOps =>
        \A i \in 1..Len(resp.decisions) :
            LET d == resp.decisions[i] IN
            /\ d.id \in DOMAIN txs
            /\ txs[d.id].status = d.status
            /\ txs[d.id].is_fraud = d.is_fraud
            /\ SameRows(d.rule_results, StoredResults(d.id))

\* an enabled rule of the state matches the amount
EnabledRuleMatches(amount) ==
    \E r \in DOMAIN rules :
        /\ rules[r].enabled
        /\ evaluate_dsl_expression(rules[r].dsl_expression,
                                   BuildContext(amount, 0, <<>>)).matched

RowsOf(db_rr, tx_id, rule_id) ==
    Cardinality({i \in 1..Len(db_rr) :
                    db_rr[i].transaction_id = tx_id /\ db_rr[i].rule_id = rule_id})

InRuleOrder(q) ==
    \A i, j \in 1..Len(q) :
        i < j => \/ q[i].priority < q[j].priority
                 \/ q[i].priority = q[j].priority /\ q[i].rule_id < q[j].rule_id

C9_ValidatorAcceptsTier1 ==
    (/\ dslOut.validated # None
     /\ dslIn.field = Amount
     /\ dslIn.op \in allowed_operators
     /\ dslIn.lit.isFloat)
    => dslOut.validated[1] =
          DslValidateResponse(TRUE,
              Some(BuildExpr(Amount, dslIn.op, dslIn.lit.text, "spaced")), <<>>)

\* the field's number in the evaluation context, if it has one
FieldNumber ==
    CASE dslIn.field = Amount -> Some(dslIn.amount)
      [] dslIn.field \in {F_age, F_user_age} -> Some(DslUser.age)
      [] OTHER -> None

Arith(l, op, r) ==
    CASE op = Op_eq -> l = r
      [] op = Op_ne -> l # r
      [] op = Op_gt -> l > r
      [] op = Op_ge -> l >= r
      [] op = Op_lt -> l < r
      [] op = Op_le -> l <= r
      [] OTHER -> FALSE

C10_Case ==
    /\ dslOut.evaluated # None
    /\ dslIn.spacing # "tight"
    /\ FieldNumber # None
    /\ dslIn.lit.val # None

\* C10: for a three-token expression whose field resolves to a number and
\* whose literal is a numeral (decimal digits, with or without a fraction),
\* the match flag is the arithmetic comparison of
\* the field value with the literal for = != > >= < <=, and false for any
\* other operator.
C10_EvaluatorComparison ==
    C10_Case =>
        /\ ~dslOut.evaluated[1].raised
        /\ dslOut.evaluated[1].matched = Arith(FieldNumber[1], dslIn.op, dslIn.lit.val[1])

\* `amount > 1000` matched against the amount 1500
C10_Witness ==
    /\ C10_Case
    /\ dslIn.field = Amount /\ dslIn.op = Op_gt
    /\ dslIn.amount = 15000 /\ dslIn.lit.val = Some(10000)
    /\ dslOut.evaluated[1].matched

(***************************************************************************)
(* Fraud rules: storage and retrieval                                      *)
(***************************************************************************)
Accepted(dsl_expression) ==
    validate_dsl_expression(dsl_expression).is_valid

C12_GetReturnsCreatedRule ==
    [][(/\ resp.op = "create_fraud_rule"
        /\ resp'.op = "get_fraud_rule"
        /\ resp'.body[1].id = resp.body[1].id)
       => resp'.body[1] = resp.body[1]]_vars

C14_EmailsUnique ==
    \A a, b \in DOMAIN users : a # b => users[a].email # users[b].email

\* Register and admin Create-user passed the email query for the same email;
\* Create-user inserted its row (role `admin`, which Register never stores),
\* and Register's INSERT was then refused and answered 500
C14_Witness ==
    /\ resp.op = "register"
    /\ resp.raised = 500
    /\ \A w \in Workers : inflight[w] = Idle
    /\ \E u \in DOMAIN users : users[u].email # admin_email /\ users[u].role = "admin"

(***************************************************************************)
(* Accounts                                                                *)
(***************************************************************************)
\* the stored users with the email whose stored hash the password verifies against
Verified(email, password) ==
    {u \in UserByEmail(users, email) : verify_password(password, users[u].password_hash)}

Caller(token) ==
    token.sub[1]

\* C19: Update by identifier changes the users table only when the caller is
\* a stored admin or the target itself; a stored non-admin caller updating
\* another stored user leaves with 403 and changes nothing; and an update whose
\* caller is not a stored admin changes no role and no active flag.
C19_UpdateByIdOnlySelfOrAdmin ==
    [][\A t \in Tokens, id \in UserIds :
          update_user_by_id(t, id, "Bob") =>
              /\ users' # users =>
                     /\ Resolves(t, users)
                     /\ users[Caller(t)].role = "admin" \/ Caller(t) = id
              /\ (/\ Resolves(t, users)
                  /\ users[Caller(t)].role # "admin"
                  /\ Caller(t) # id
                  /\ id \in DOMAIN users)
                 => (resp'.raised = 403 /\ users' = users)
              /\ ~(Resolves(t, users) /\ users[Caller(t)].role = "admin") =>
                     \A u \in DOMAIN users :
                         /\ users'[u].role = users[u].role
                         /\ users'[u].is_active = users[u].is_active]_vars

\* C20: an Update self by a stored, active caller writes the requested full
\* name to the caller's row and leaves its role and active flag unchanged, and
\* a Get self that follows it returns the full name it was asked to write.
C20_UpdateSelfPersists ==
    [][/\ \A t \in Tokens :
              (update_current_user_profile(t, "Cy") /\ Resolves(t, users)) =>
                  /\ users'[Caller(t)].full_name = "Cy"
                  /\ users'[Caller(t)].role = users[Caller(t)].role
                  /\ users'[Caller(t)].is_active = users[Caller(t)].is_active
       /\ (/\ resp.op = "update_current_user_profile"
           /\ resp'.op = "get_current_user_profile"
           /\ resp'.token = resp.token
           /\ Resolves(resp.token, users))
          => resp'.body[1].full_name = resp.body[1].full_name]_vars

(***************************************************************************)
(* Transactions: owner and retrieval                                       *)
(***************************************************************************)
\* the caller is a stored admin and the request names a user
OnBehalf(token, item) ==
    users[Caller(token)].role = "admin" /\ item.user_id # None

Owner(token, item) ==
    IF OnBehalf(token, item) THEN item.user_id[1] ELSE Caller(token)

\* C17: a Create by a stored, active caller stores a transaction only for the
\* caller, or for the user an admin caller names; when an admin names a user
\* that is not stored the request leaves with 404, when it names a deactivated
\* user with 403, and in both cases no transaction is stored.
C17_OwnerIsCallerOrAdminsTarget ==
    [][\A t \in TxTokens, item \in Items, order \in ReloadOrders :
          (Resolves(t, users) /\ create_transaction(t, item, order)) =>
              /\ (OnBehalf(t, item) /\ Owner(t, item) \notin DOMAIN users)
                     => (resp'.raised = 404 /\ txs' = txs)
              /\ (/\ OnBehalf(t, item)
                  /\ Owner(t, item) \in DOMAIN users
                  /\ ~users[Owner(t, item)].is_active)
                     => (resp'.raised = 403 /\ txs' = txs)
              /\ \A x \in DOMAIN txs' \ DOMAIN txs :
                     txs'[x].user_id = Owner(t, item)]_vars

\* C18: a Get by identifier leaves with 404 when no transaction has the
\* identifier, with 403 when the stored, active caller is neither an admin nor
\* the transaction's owner, and otherwise answers with the stored transaction
\* and the RuleResult rows stored for it.
C18_GetReturnsStoredTransaction ==
    [][\A t \in TxTokens, id \in TxIds :
          (Resolves(t, users) /\ get_transaction(t, id)) =>
              /\ id \notin DOMAIN txs => resp'.raised = 404
              /\ (/\ id \in DOMAIN txs
                  /\ users[Caller(t)].role # "admin"
                  /\ txs[id].user_id # Caller(t))
                     => resp'.raised = 403
              /\ (/\ id \in DOMAIN txs
                  /\ users[Caller(t)].role = "admin" \/ txs[id].user_id = Caller(t))
                     => /\ resp'.raised = 0
                        /\ Len(resp'.decisions) = 1
                        /\ resp'.decisions[1].id = id
                        /\ resp'.decisions[1].user_id = txs[id].user_id
                        /\ resp'.decisions[1].amount = txs[id].amount
                        /\ resp'.decisions[1].status = txs[id].status
                        /\ resp'.decisions[1].is_fraud = txs[id].is_fraud
                        /\ SameRows(resp'.decisions[1].rule_results, StoredResults(id))]_vars

(***************************************************************************)
(* Transactions: the batch                                                 *)
(***************************************************************************)
\* C21: in a batch Create an item whose timestamp does not parse gets an entry
\* carrying an error code at its own index and does not abort the batch: every
\* other item is processed and answered with the decision of a transaction
\* the request stored.
C21_FailingItemDoesNotAbortBatch ==
    [][\A items \in Batches :
          (/\ resp'.op = "create_transaction_batch"
           /\ "transactions" \in tables
           /\ \E orders \in [1..Len(items) -> ReloadOrders] :
                  create_transaction_batch(AdminToken, items, orders))
          => /\ Len(resp'.decisions) = Len(items)
             /\ \A i \in 1..Len(items) :
                    IF items[i].ts_ok
                    THEN resp'.decisions[i].id \in DOMAIN txs' \ DOMAIN txs
                    ELSE "code" \in DOMAIN resp'.decisions[i]]_vars

AdminRows(db_users) ==
    UserByEmail(db_users, admin_email)

\* a step that completes startup_event
BootstrapRuns ==
    inflight[Bootstrap] = Starting /\ inflight'[Bootstrap] = Idle

\* C24: a bootstrap adds the seed administrator only when no user has the
\* admin email: it never changes or removes a stored user, it leaves the users
\* as they are when one of them has the admin email, and when none has and the
\* bootstrap does not fail it adds exactly one, an active admin; so however
\* often the application is restarted, at most one user has the admin email.
C24_BootstrapSeedsAdminOnce ==
    [][BootstrapRuns =>
          /\ \A u \in DOMAIN users : u \in DOMAIN users' /\ users'[u] = users[u]
          /\ AdminRows(users) # {} => users' = users
          /\ (AdminRows(users) = {} /\ ~resp'.body[1].failed)
                 => \E u \in DOMAIN users' \ DOMAIN users :
                        /\ DOMAIN users' = DOMAIN users \cup {u}
                        /\ users'[u].email = admin_email
                        /\ users'[u].role = "admin"
                        /\ users'[u].is_active
          /\ Cardinality(AdminRows(users')) <= 1
          /\ ~resp'.body[1].failed => Cardinality(AdminRows(users')) = 1]_vars

\* the application was restarted after the seed administrator had been
\* deactivated and another user had registered
C24_Witness ==
    /\ resp.op = "startup_event"
    /\ ~resp.body[1].failed
    /\ Cardinality(DOMAIN users) = MaxUsers
    /\ \E u \in AdminRows(users) : ~users[u].is_active

EntityTables == {"users", "fraud_rules", "transactions", "rule_results"}

\* C27: after the schema creation of a bootstrap the database has the tables
\* of all four entity types, and a schema creation that runs again (the users
\* table is there already) changes nothing.
C27_SchemaCreationMakesAllTables ==
    [][(inflight[Bootstrap] # Starting /\ inflight'[Bootstrap] = Starting)
       => /\ EntityTables \subseteq tables'
          /\ "users" \in tables => tables' = tables]_vars

\* C28: a session is open only while its owner is at work: once a request has
\* ended, with or without an exception, the session get_db opened for it is
\* closed, and once startup_event has ended, whether or not it failed, its
\* session is closed.
C28_SessionsAreClosed ==
    \A o \in DOMAIN inflight :
        inflight[o] \in {Idle, Stopped} => o \notin sessions

\* a login has just been refused with 423, the application has been restarted
\* before, nothing is at work and no session is open
C28_Witness ==
    /\ resp.op = "login"
    /\ resp.raised = 423
    /\ inflight[Bootstrap] = Idle
    /\ \A w \in Workers : inflight[w] = Idle
    /\ sessions = {}

(***************************************************************************)
(* The validator and the evaluator on the same expression                  *)
(***************************************************************************)
\* the expression has been validated and accepted, and evaluated as it is
\* stored (the text of the request)
AcceptedAndEvaluated ==
    /\ dslOut.validated # None
    /\ dslOut.evaluated # None
    /\ dslOut.validated[1].is_valid

\* C29: an expression the validator accepts, with a numeral as its literal,
\* is evaluated as the comparison its normalized form `amount <op> <literal>`
\* denotes: the match flag is the arithmetic comparison of the amount with
\* the literal.
C29_AcceptedIsEvaluatedAsNormalized ==
    (AcceptedAndEvaluated /\ dslIn.lit.val # None)
    => /\ ~dslOut.evaluated[1].raised
       /\ dslOut.evaluated[1].matched = Arith(dslIn.amount, dslIn.op, dslIn.lit.val[1])

\* C30: evaluating an accepted expression returns a pair and never raises,
\* whatever the literal the validator accepted.
C30_AcceptedNeverRaises ==
    AcceptedAndEvaluated => ~dslOut.evaluated[1].raised

====
